---- MODULE Spec2Model ----
(***************************************************************************)
(* Detection engine of the security monitoring agent: the per-actor        *)
(* aggregation loop (main.py, run_pipeline.py), RuleEngine.check_rules,    *)
(* AnomalyDetector (construction, feature extraction, model strategy with  *)
(* heuristic fallback, mask mapping) and ThreatAgent.analyze.              *)
(*                                                                         *)
(* Python values are tagged records [k, v]: k is the kind of the value and *)
(* v its integer payload (0 when the kind carries none).  Floating point   *)
(* quantities of the heuristic are kept as exact rationals (numerator and  *)
(* denominator); see ZExceeds for the one place where rounding decides.    *)
(***************************************************************************)
EXTENDS Integers, Sequences, FiniteSets, TLC

VARIABLES hasNumpy, hasSklearn, events, pos, cur, agg, rows, detector,
          rule_alerts, features, mask, model_raised, anomaly_alerts,
          raised, pc, calls, first

vars == <<hasNumpy, hasSklearn, events, pos, cur, agg, rows, detector,
          rule_alerts, features, mask, model_raised, anomaly_alerts,
          raised, pc, calls, first>>

(***************************************************************************)
(* Bounds of the model.                                                    *)
(***************************************************************************)
MaxEvents == 2
MaxRows == 2
MaxConst == 4
MaxOutlier == 11
MaxCalls == 3

(***************************************************************************)
(* Python values.                                                          *)
(***************************************************************************)
IntV(n) == [k |-> "int", v |-> n]
NumStrV(n) == [k |-> "numstr", v |-> n]
NoneV == [k |-> "None", v |-> 0]
MissingV == [k |-> "missing", v |-> 0]
UnknownV == [k |-> "unknown", v |-> 0]
StrV == [k |-> "str", v |-> 0]
InfV == [k |-> "inf", v |-> 0]

Rat(p, q) == [num |-> p, den |-> q]

Abs(x) == IF x < 0 THEN 0 - x ELSE x

\* dict.get(key): a missing key reads as None
Get(x) == IF x.k = "missing" THEN NoneV ELSE x

\* dict.get(key, 0): a missing key reads as 0, a stored None stays None
GetOrZero(x) == IF x.k = "missing" THEN IntV(0) ELSE x

(***************************************************************************)
(* Aggregation loop.  Field values of a raw event are strings; an absent   *)
(* key and a stored None are the two reserved strings below.               *)
(***************************************************************************)
AbsentS == "<absent>"
NoneS == "<None>"

\* truthiness of r.get(field) under Python's `or`
Truthy(s) == s \notin {AbsentS, NoneS, ""}

ActorIdIpFirst(r) ==
    IF Truthy(r.ip) THEN r.ip
    ELSE IF Truthy(r.source_ip) THEN r.source_ip
    ELSE "unknown"

ActorId(r) ==
    IF Truthy(r.source_ip) THEN r.source_ip
    ELSE IF Truthy(r.ip) THEN r.ip
    ELSE "unknown"

\* position of the entry of actor ip in the insertion-ordered dict, 0 if none
EntryIndex(d, ip) ==
    IF \E i \in 1..Len(d) : d[i].ip = ip
    THEN CHOOSE i \in 1..Len(d) : d[i].ip = ip
    ELSE 0

NewEntry(ip) == [ip |-> ip, failed_logins |-> IntV(0), requests |-> IntV(0)]

\* agg.setdefault(ip, {...})
SetDefault(d, ip) == IF EntryIndex(d, ip) = 0 THEN Append(d, NewEntry(ip)) ELSE d

IsFailedLogin(r) == r.event = "failed_login"

Bump(x) == IntV(x.v + 1)

(***************************************************************************)
(* RuleEngine.check_rules.                                                 *)
(***************************************************************************)
BruteForceThreshold == 5

\* outcome of int(x): "none" when it returns, else the exception it raises
IntError(x) ==
    CASE x.k \in {"int", "numstr"} -> "none"
      [] x.k \in {"str", "unknown"} -> "ValueError"
      [] x.k = "inf" -> "OverflowError"
      [] OTHER -> "TypeError"

\* the None/"unknown" test and the try/except (TypeError, ValueError) around
\* int(); err is the exception that escapes the handler, if any
CoerceFailedLogins(x) ==
    IF x.k = "None" \/ x.k = "unknown" THEN [err |-> "none", val |-> 0]
    ELSE IF IntError(x) = "none" THEN [err |-> "none", val |-> x.v]
    ELSE IF IntError(x) \in {"TypeError", "ValueError"} THEN [err |-> "none", val |-> 0]
    ELSE [err |-> IntError(x), val |-> 0]

BruteForceGe(n) == n >= BruteForceThreshold

BruteForce(n) == n > BruteForceThreshold

BruteForceAlert(row, n) == [type |-> "Brute Force", ip |-> row.ip, failed_logins |-> n]

RECURSIVE CheckRulesFrom(_, _, _)
CheckRulesFrom(rs, i, alerts) ==
    IF i > Len(rs) THEN [err |-> "none", alerts |-> alerts]
    ELSE LET c == CoerceFailedLogins(Get(rs[i].failed_logins))
         IN  IF c.err # "none" THEN [err |-> c.err, alerts |-> alerts]
             ELSE IF BruteForce(c.val)
                  THEN CheckRulesFrom(rs, i + 1, Append(alerts, BruteForceAlert(rs[i], c.val)))
                  ELSE CheckRulesFrom(rs, i + 1, alerts)

check_rules(rs) == CheckRulesFrom(rs, 1, <<>>)

(***************************************************************************)
(* AnomalyDetector: feature extraction.                                    *)
(***************************************************************************)
FeatureRow(r) == <<GetOrZero(r.failed_logins), GetOrZero(r.requests)>>

ExtractFeatures(rs) == [i \in 1..Len(rs) |-> FeatureRow(rs[i])]

\* the column preceded by the values of the previous call
ColumnAccum(F, c) ==
    [i \in 1..(Len(features) + Len(F)) |->
        IF i <= Len(features) THEN features[i][c] ELSE F[i - Len(features)][c]]

Column(F, c) == [i \in 1..Len(F) |-> F[i][c]]

(***************************************************************************)
(* AnomalyDetector._heuristic_mask.  A column is a sequence of values; the *)
(* statistics are exact rationals: mean = MeanNum/MeanDen, deviation of v  *)
(* = DevNum/MeanDen, variance = SumSq/(MeanDen^2 * n), so that             *)
(* z^2 = DevNum^2 * n / SumSq.                                             *)
(***************************************************************************)
\* reciprocal of the epsilon 1e-8 substituted for a zero standard deviation
EpsInv == 100000000

\* vals = [v if v is not None else 0 for v in c]
ValOf(x) == IF x.k = "None" THEN 0 ELSE x.v

RECURSIVE SumVals(_, _)
SumVals(col, i) == IF i > Len(col) THEN 0 ELSE ValOf(col[i]) + SumVals(col, i + 1)

MeanNumSkipFirst(col) == SumVals(col, 2)

MeanNum(col) == SumVals(col, 1)

MeanDen(col) == Len(col)

DevNum(x, col) == MeanDen(col) * ValOf(x) - MeanNum(col)

RECURSIVE SumSqFrom(_, _)
SumSqFrom(col, i) ==
    IF i > Len(col) THEN 0
    ELSE DevNum(col[i], col) * DevNum(col[i], col) + SumSqFrom(col, i + 1)

SumSqOverN(col) == SumSqFrom(col, 1) \div Len(col)

SumSq(col) == SumSqFrom(col, 1)

\* the column holds an infinity: mean, std and every z-score of it are
\* inf or nan, and no comparison z > n_sigma is true
HasInf(col) == \E i \in 1..Len(col) : col[i].k = "inf"

Side(x, col) == IF DevNum(x, col) < 0 THEN 0 - 1 ELSE 1

ZExceedsRaw(x, col, c, ns, tie) ==
    IF HasInf(col) THEN FALSE
    ELSE IF ns.num < 0 THEN TRUE
    ELSE Abs(DevNum(x, col)) * ns.den > ns.num * MeanDen(col)

\* a batch of 2^k rows of integer features: sum / n, the deviations, their
\* squares, var ** 0.5 of a rational square and the quotient are all exact in
\* binary floating point, so z is computed without rounding
RECURSIVE PowerOfTwo(_)
PowerOfTwo(n) ==
    IF n = 1 THEN TRUE
    ELSE IF n < 1 \/ n % 2 = 1 THEN FALSE
    ELSE PowerOfTwo(n \div 2)

\* z = abs((v - mean) / std) > n_sigma for value x of feature c.
\* The comparison is evaluated exactly.  When the exact z equals n_sigma and
\* the mean is not exact, the floating point z is within an ulp of n_sigma on
\* either side, depending on the order of summation (row order, sum() of the
\* interpreter, numpy): tie holds the <<feature, side of the mean>> pairs
\* that round above.
ZExceeds(x, col, c, ns, tie) ==
    LET D == Abs(DevNum(x, col))
        Q == SumSq(col)
        n == Len(col)
    IN  IF HasInf(col) THEN FALSE
        ELSE IF ns.num < 0 THEN TRUE
        ELSE IF D = 0 THEN FALSE
        ELSE IF Q = 0 THEN (ns.num * MeanDen(col)) \div (D * ns.den) < EpsInv
        ELSE LET lhs == D * D * n * ns.den * ns.den
                 rhs == ns.num * ns.num * Q
             IN  IF lhs = rhs
                 THEN ~PowerOfTwo(n) /\ <<c, Side(x, col)>> \in tie
                 ELSE lhs > rhs

Ties == SUBSET ({1, 2} \X {0 - 1, 1})

\* the exact z of value x equals n_sigma and its floating point value is rounded
ExactTie(x, col, ns) ==
    /\ ~HasInf(col) /\ ns.num >= 0 /\ ~PowerOfTwo(Len(col))
    /\ DevNum(x, col) # 0
    /\ DevNum(x, col) * DevNum(x, col) * Len(col) * ns.den * ns.den
           = ns.num * ns.num * SumSq(col)

\* the <<feature, side of the mean>> pairs on which batch F has a tie
TiesOf(F, ns) ==
    {t \in {1, 2} \X {0 - 1, 1} :
        \E i \in 1..Len(F) :
            /\ ExactTie(F[i][t[1]], Column(F, t[1]), ns)
            /\ Side(F[i][t[1]], Column(F, t[1])) = t[2]}

\* pure-Python branch: sum(vals) raises TypeError on a str; None is replaced
\* by 0 in the statistics and skipped in the row loop
PyRaises(F) ==
    \E i \in 1..Len(F) : \E c \in 1..2 : F[i][c].k \notin {"int", "None", "inf"}

PyRowAnomalous(F, i, ns, tie) ==
    \E c \in 1..2 : F[i][c].k # "None" /\ ZExceeds(F[i][c], Column(F, c), c, ns, tie)

\* numpy branch: an array holding None or a str is not numeric and
\* nanmean / the subtraction raise TypeError
NpRaisesOrEmpty(F) ==
    F = <<>> \/ \E i \in 1..Len(F) : \E c \in 1..2 : F[i][c].k \notin {"int", "inf"}

NpRaises(F) ==
    \E i \in 1..Len(F) : \E c \in 1..2 : F[i][c].k \notin {"int", "inf"}

NpRowAnomalous(F, i, ns, tie) ==
    \E c \in 1..2 : ZExceeds(F[i][c], Column(F, c), c, ns, tie)

HeuristicRaises(F, np) == IF np THEN NpRaises(F) ELSE PyRaises(F)

heuristic_mask(F, ns, np, tie) ==
    [i \in 1..Len(F) |-> IF np THEN NpRowAnomalous(F, i, ns, tie)
                               ELSE PyRowAnomalous(F, i, ns, tie)]

(***************************************************************************)
(* AnomalyDetector.detect: mapping of the mask back to the records.        *)
(***************************************************************************)
RECURSIVE MapMaskShifted(_, _, _)
MapMaskShifted(rs, m, idx) ==
    IF idx > Len(m) THEN <<>>
    ELSE IF m[idx] /\ idx < Len(rs)
         THEN <<rs[idx + 1]>> \o MapMaskShifted(rs, m, idx + 1)
         ELSE MapMaskShifted(rs, m, idx + 1)

RECURSIVE MapMask(_, _, _)
MapMask(rs, m, idx) ==
    IF idx > Len(m) THEN <<>>
    ELSE IF m[idx] /\ idx <= Len(rs)
         THEN <<rs[idx]>> \o MapMask(rs, m, idx + 1)
         ELSE MapMask(rs, m, idx + 1)

\* IsolationForest.fit validates contamination: a float in (0, 0.5]
ContaminationAccepted(c) == 0 < c.num /\ 2 * c.num <= c.den

\* fit/predict can succeed only on a non-empty, finite, numeric matrix
ModelCanFit(F, c) ==
    /\ F # <<>>
    /\ ContaminationAccepted(c)
    /\ \A i \in 1..Len(F) : \A j \in 1..2 : F[i][j].k = "int"

Masks(n) == [1..n -> BOOLEAN]

(***************************************************************************)
(* Inputs.                                                                 *)
(***************************************************************************)
SourceIps == {AbsentS, "", "1.1.1.1"}
Ips == {AbsentS, "2.2.2.2"}
EventKinds == {"failed_login", "login"}

RawEvents == [source_ip : SourceIps, ip : Ips, event : EventKinds]

EventSeqs == UNION {[1..n -> RawEvents] : n \in 0..MaxEvents}

IPs == <<"10.0.0.1", "10.0.0.2", "10.0.0.3", "10.0.0.4", "10.0.0.5", "10.0.0.6">>

FLDomain == {IntV(5), IntV(6), NoneV, MissingV, UnknownV, StrV, InfV}
ReqDomain == {IntV(1), NoneV}

\* records handed to analyze/detect by a caller, n of them
CallerRows(n) ==
    {[i \in 1..n |-> [ip |-> IPs[i], failed_logins |-> f[i], requests |-> g[i]]] :
        f \in [1..n -> FLDomain], g \in [1..n -> ReqDomain]}

\* n records that agree on both features
ConstBatch(n, a, b) ==
    [i \in 1..n |-> [ip |-> IPs[i], failed_logins |-> IntV(a), requests |-> IntV(b)]]

ConstBatches == {ConstBatch(n, a, b) : n \in 1..MaxConst, a \in {0, 6}, b \in {1, 7}}

\* the batch of nine rows A and one row J, J last and J first
RowA == [ip |-> "A", failed_logins |-> IntV(1), requests |-> IntV(10)]
RowJ == [ip |-> "J", failed_logins |-> IntV(100), requests |-> IntV(10)]
BatchJLast == [i \in 1..10 |-> IF i = 10 THEN RowJ ELSE RowA]
BatchJFirst == [i \in 1..10 |-> IF i = 1 THEN RowJ ELSE RowA]

\* n - 1 rows A followed by row J
OutlierBatch(n) == [i \in 1..n |-> IF i = n THEN RowJ ELSE RowA]

OutlierBatches == {OutlierBatch(n) : n \in 2..MaxOutlier}

RowInputs ==
    (UNION {CallerRows(n) : n \in 0..MaxRows}) \cup ConstBatches
    \cup {BatchJLast, BatchJFirst} \cup OutlierBatches

NSigmas == {Rat(0 - 1, 1), Rat(1, 2), Rat(1, 1), Rat(3, 1)}
DefaultContamination == Rat(1, 10)
DefaultNSigma == Rat(3, 1)

\* constructor arguments: the defaults, n_sigma overridden, contamination overridden
Configs ==
    {[contamination |-> DefaultContamination, n_sigma |-> ns] : ns \in NSigmas}
    \cup {[contamination |-> Rat(15, 10), n_sigma |-> DefaultNSigma]}

\* batches of the detect calls that follow the first one
LaterBatches == {ConstBatch(2, 6, 1), ConstBatch(1, 0, 7)}

\* no heuristic result of a fresh detector yet
NoFirst ==
    [set |-> FALSE, mixed |-> FALSE, rows |-> <<>>, tie |-> {}, mask |-> <<>>,
     anomalies |-> <<>>]

NoDetector ==
    [constructed |-> FALSE, contamination |-> Rat(0, 1), n_sigma |-> Rat(0, 1), model |-> FALSE]

(***************************************************************************)
(* State machine.                                                          *)
(***************************************************************************)
\* <<numpy imports, scikit-learn imports>>; scikit-learn depends on numpy
Environments == {<<FALSE, FALSE>>, <<TRUE, FALSE>>, <<TRUE, TRUE>>}

Init ==
    /\ \E env \in Environments : hasNumpy = env[1] /\ hasSklearn = env[2]
    /\ \/ events \in EventSeqs /\ rows = <<>> /\ pc = "agg_lookup"
       \/ events = <<>> /\ rows \in RowInputs /\ pc = "rows"
    /\ pos = 0
    /\ cur = 0
    /\ agg = <<>>
    /\ detector = NoDetector
    /\ rule_alerts = <<>>
    /\ features = <<>>
    /\ mask = <<>>
    /\ model_raised = FALSE
    /\ anomaly_alerts = <<>>
    /\ raised = "none"
    /\ calls = 0
    /\ first = NoFirst

\* ip = r.get('source_ip') or r.get('ip') or 'unknown'; entry = agg.setdefault(...)
AggLookup ==
    /\ pc = "agg_lookup"
    /\ pos < Len(events)
    /\ LET ip == ActorId(events[pos + 1])
       IN  /\ agg' = SetDefault(agg, ip)
           /\ cur' = EntryIndex(agg', ip)
    /\ pc' = "agg_failed"
    /\ UNCHANGED <<calls, first, hasNumpy, hasSklearn, events, pos, rows, detector, rule_alerts,
                   features, mask, model_raised, anomaly_alerts, raised>>

CountRequestUnlessFailed(d, i, r) ==
    IF IsFailedLogin(r) THEN d ELSE [d EXCEPT ![i].requests = Bump(@)]

\* entry['requests'] += 1
CountRequest(d, i, r) == [d EXCEPT ![i].requests = Bump(@)]

\* if r.get('event') == 'failed_login': entry['failed_logins'] += 1
CountFailed(d, i, r) ==
    IF IsFailedLogin(r) THEN [d EXCEPT ![i].failed_logins = Bump(@)] ELSE d

AggCountFailed ==
    /\ pc = "agg_failed"
    /\ agg' = CountFailed(agg, cur, events[pos + 1])
    /\ pc' = "agg_requests"
    /\ UNCHANGED <<calls, first, hasNumpy, hasSklearn, events, pos, cur, rows, detector, rule_alerts,
                   features, mask, model_raised, anomaly_alerts, raised>>

AggCountRequest ==
    /\ pc = "agg_requests"
    /\ agg' = CountRequest(agg, cur, events[pos + 1])
    /\ pos' = pos + 1
    /\ pc' = "agg_lookup"
    /\ UNCHANGED <<calls, first, hasNumpy, hasSklearn, events, cur, rows, detector, rule_alerts,
                   features, mask, model_raised, anomaly_alerts, raised>>

\* the loop is exhausted: rows = list(agg.values())
AggDone ==
    /\ pc = "agg_lookup"
    /\ pos = Len(events)
    /\ rows' = agg
    /\ pc' = "rows"
    /\ UNCHANGED <<calls, first, hasNumpy, hasSklearn, events, pos, cur, agg, detector, rule_alerts,
                   features, mask, model_raised, anomaly_alerts, raised>>

\* AnomalyDetector.__init__: the arguments are stored as given
Construct ==
    /\ pc = "rows"
    /\ \E cfg \in Configs :
          detector' = [constructed |-> TRUE, contamination |-> cfg.contamination,
                       n_sigma |-> cfg.n_sigma, model |-> hasSklearn]
    /\ pc' = "ready"
    /\ UNCHANGED <<calls, first, hasNumpy, hasSklearn, events, pos, cur, agg, rows, rule_alerts,
                   features, mask, model_raised, anomaly_alerts, raised>>

rule_df_reversed(rs) == [i \in 1..Len(rs) |-> rs[Len(rs) + 1 - i]]

\* _FakeDF(rows).iterrows(): the same records, wrapped, in list order
rule_df(rs) == [i \in 1..Len(rs) |-> rs[i]]

\* ThreatAgent.analyze, first half: self.rules.check_rules(rule_df)
CheckRules ==
    /\ pc = "ready"
    /\ LET res == check_rules(rule_df(rows))
       IN  IF res.err = "none"
           THEN /\ rule_alerts' = res.alerts
                /\ raised' = raised
                /\ pc' = "rules_done"
           ELSE /\ rule_alerts' = rule_alerts
                /\ raised' = res.err
                /\ pc' = "raised"
    /\ UNCHANGED <<calls, first, hasNumpy, hasSklearn, events, pos, cur, agg, rows, detector,
                   features, mask, model_raised, anomaly_alerts>>

\* the heuristic strategy and the mapping of its mask, or the TypeError it raises
\* first keeps the result of the first call of the detector when the
\* heuristic produced it, and the rounding of that batch: floating point
\* arithmetic rounds the same batch the same way in every call
Remember(tie, m, out) ==
    IF calls = 0
    THEN [set |-> TRUE, mixed |-> FALSE, rows |-> rows, tie |-> tie, mask |-> m,
          anomalies |-> out]
    ELSE [first EXCEPT !.mixed = @ \/ (first.set /\ rows # first.rows)]

Roundings(F, ns) ==
    IF first.set /\ rows = first.rows THEN {first.tie} ELSE SUBSET TiesOf(F, ns)

RunHeuristic ==
    /\ features' = ExtractFeatures(rows)
    /\ calls' = calls + 1
    /\ IF HeuristicRaises(features', hasNumpy)
       THEN /\ raised' = "TypeError"
            /\ pc' = "raised"
            /\ UNCHANGED <<mask, anomaly_alerts, first>>
       ELSE /\ \E tie \in Roundings(features', detector.n_sigma) :
                  /\ mask' = heuristic_mask(features', detector.n_sigma, hasNumpy, tie)
                  /\ first' = Remember(tie, mask', MapMask(rows, mask', 1))
            /\ anomaly_alerts' = MapMask(rows, mask', 1)
            /\ raised' = raised
            /\ pc' = "done"

\* detect is called by analyze after the rules, or directly by run_pipeline
DetectCalled == pc \in {"ready", "rules_done", "again"}

\* detect without a model: mask = self._heuristic_mask(features)
DetectHeuristic ==
    /\ DetectCalled
    /\ ~(hasSklearn /\ detector.model)
    /\ RunHeuristic
    /\ UNCHANGED <<hasNumpy, hasSklearn, events, pos, cur, agg, rows, detector,
                   rule_alerts, model_raised>>

\* detect with a model whose fit and predict return: mask = preds == -1
DetectModel ==
    /\ DetectCalled
    /\ hasSklearn /\ detector.model
    /\ features' = ExtractFeatures(rows)
    /\ ModelCanFit(features', detector.contamination)
    /\ \E m \in Masks(Len(rows)) : mask' = m
    /\ anomaly_alerts' = MapMask(rows, mask', 1)
    /\ pc' = "done"
    /\ calls' = calls + 1
    /\ first' = [first EXCEPT !.mixed = @ \/ (first.set /\ rows # first.rows)]
    /\ UNCHANGED <<hasNumpy, hasSklearn, events, pos, cur, agg, rows, detector,
                   rule_alerts, model_raised, raised>>

\* detect with a model whose fit or predict raises: the except branch
DetectModelFallback ==
    /\ DetectCalled
    /\ hasSklearn /\ detector.model
    /\ model_raised' = TRUE
    /\ RunHeuristic
    /\ UNCHANGED <<hasNumpy, hasSklearn, events, pos, cur, agg, rows, detector,
                   rule_alerts>>

\* the caller holding the detector calls detect once more, on another batch
\* or on the batch of the first call; the locals of the previous call are gone
CallAgain ==
    /\ pc = "done"
    /\ events = <<>>
    /\ calls < MaxCalls
    /\ first.set
    /\ rows' \in LaterBatches \cup {first.rows}
    /\ mask' = <<>>
    /\ anomaly_alerts' = <<>>
    /\ model_raised' = FALSE
    /\ pc' = "again"
    /\ UNCHANGED <<calls, first, hasNumpy, hasSklearn, events, pos, cur, agg, detector,
                   rule_alerts, features, raised>>

Next ==
    \/ AggLookup
    \/ AggCountFailed
    \/ AggCountRequest
    \/ AggDone
    \/ Construct
    \/ CheckRules
    \/ DetectHeuristic
    \/ DetectModel
    \/ DetectModelFallback
    \/ CallAgain

Spec == Init /\ [][Next]_vars

(***************************************************************************)
(* Properties.                                                             *)
(***************************************************************************)
Aggregating == pc \in {"agg_lookup", "agg_failed", "agg_requests"}

\* the heuristic strategy produced the mask of a detect call that returned
HeuristicRan == pc = "done" /\ (~detector.model \/ model_raised)

\* number of members of S up to i: the position of i among the members
Rank(S, i) == Cardinality({m \in S : m <= i})

IntRows == \A i \in 1..Len(rows) : rows[i].failed_logins.k = "int"

OverThreshold == {i \in 1..Len(rows) : rows[i].failed_logins.v > 5}

\* C1: for records with integer failed_logins, check_rules returns exactly one
\* "Brute Force" alert {type, ip, failed_logins} per record with
\* failed_logins > 5, in input order, and none for failed_logins <= 5.
C1_BruteForceAlertsExact ==
    (pc = "rules_done" /\ IntRows) =>
        /\ Len(rule_alerts) = Cardinality(OverThreshold)
        /\ \A i \in OverThreshold :
              rule_alerts[Rank(OverThreshold, i)] =
                  [type |-> "Brute Force", ip |-> rows[i].ip,
                   failed_logins |-> rows[i].failed_logins.v]

C1_Witness ==
    /\ pc = "rules_done" /\ IntRows /\ Len(rows) = 2
    /\ rows[1].failed_logins.v = 5 /\ rows[2].failed_logins.v = 6
    /\ Len(rule_alerts) = 1

HasValue(s) == s # AbsentS /\ s # NoneS /\ s # ""

ActorOf(e) ==
    IF HasValue(e.source_ip) THEN e.source_ip
    ELSE IF HasValue(e.ip) THEN e.ip
    ELSE "unknown"

EventsOf(ip) == {j \in 1..Len(events) : ActorOf(events[j]) = ip}

FailedOf(ip) == {j \in EventsOf(ip) : events[j].event = "failed_login"}

FirstSeen(ip) == CHOOSE j \in EventsOf(ip) : \A m \in EventsOf(ip) : j <= m

\* C2: the aggregation loop yields one record per distinct actor id (source_ip,
\* else ip, else "unknown"), in first-seen order; requests is the number of the
\* actor's events and failed_logins the number of them that are "failed_login".
C2_AggregationExact ==
    ~Aggregating =>
        /\ {agg[i].ip : i \in 1..Len(agg)} = {ActorOf(events[j]) : j \in 1..Len(events)}
        /\ \A i, j \in 1..Len(agg) :
              i < j => FirstSeen(agg[i].ip) < FirstSeen(agg[j].ip)
        /\ \A i \in 1..Len(agg) :
              /\ agg[i].requests = IntV(Cardinality(EventsOf(agg[i].ip)))
              /\ agg[i].failed_logins = IntV(Cardinality(FailedOf(agg[i].ip)))
        /\ (pc = "rows" /\ events # <<>>) => rows = agg

C2_Witness ==
    /\ pc = "rows" /\ Len(events) = 2 /\ Len(agg) = 2
    /\ events[1].source_ip = "" /\ agg[1].ip = "2.2.2.2"
    /\ agg[1].failed_logins.v = 1 /\ agg[2].ip = "unknown"

RequestsCoverFailed(r) == r.requests.v >= r.failed_logins.v

\* C3 as stated: requests >= failed_logins for every record in every state of
\* the aggregation pass, after each counter update.
C3_AlwaysCovered == \A i \in 1..Len(agg) : RequestsCoverFailed(agg[i])

\* C3 amended: requests >= failed_logins holds for every record before and
\* after each event's pair of counter updates and in the final output; between
\* the two updates only the current record may be short, by one request.
C3_CoveredBetweenEvents ==
    /\ pc # "agg_requests" => \A i \in 1..Len(agg) : RequestsCoverFailed(agg[i])
    /\ pc = "agg_requests" =>
          \A i \in 1..Len(agg) :
              IF i = cur THEN agg[i].requests.v + 1 >= agg[i].failed_logins.v
                         ELSE RequestsCoverFailed(agg[i])
    /\ (pc = "rows" /\ events # <<>>) => \A i \in 1..Len(rows) : RequestsCoverFailed(rows[i])

C3_Witness ==
    /\ pc = "rows" /\ Len(events) = 2 /\ rows = agg /\ Len(rows) = 1
    /\ rows[1].failed_logins.v = 2 /\ rows[1].requests.v = 2

NineAndJ == rows \in {BatchJLast, BatchJFirst}

\* C4 as stated: with n_sigma = 3.0 the heuristic flags exactly row J of the
\* batch of nine rows A and row J.
C4_ExactlyJ ==
    (HeuristicRan /\ NineAndJ /\ detector.n_sigma = Rat(3, 1)) => anomaly_alerts = <<RowJ>>

\* C4 amended: with n_sigma = 3.0 the heuristic flags no row of that batch
\* other than J; J's z-score is exactly 3.0, so whether J itself is flagged
\* is decided by floating point rounding and detect returns [J] or [].
C4_NoRowButJ ==
    (HeuristicRan /\ NineAndJ /\ detector.n_sigma = Rat(3, 1)) =>
        anomaly_alerts \in {<<>>, <<RowJ>>}

C4_Witness ==
    /\ HeuristicRan /\ rows = BatchJFirst /\ detector.n_sigma = Rat(3, 1)
    /\ anomaly_alerts = <<>>

IdenticalRows ==
    /\ rows # <<>>
    /\ \A i, j \in 1..Len(rows) :
          /\ rows[i].failed_logins = rows[j].failed_logins
          /\ rows[i].requests = rows[j].requests

\* C5: on a non-empty batch whose rows agree on failed_logins and on requests
\* the heuristic mask is all False and detect returns no anomaly, for every
\* n_sigma > 0.
C5_IdenticalRowsNoAnomaly ==
    (HeuristicRan /\ IdenticalRows /\ detector.n_sigma.num > 0) =>
        /\ Len(mask) = Len(rows)
        /\ \A i \in 1..Len(mask) : ~mask[i]
        /\ anomaly_alerts = <<>>

C5_Witness ==
    /\ HeuristicRan /\ IdenticalRows /\ Len(rows) >= 3
    /\ detector.n_sigma = Rat(1, 2)
    /\ rows[1].failed_logins = IntV(6) /\ rows[1].requests = IntV(7)

\* a stored failed_logins that is missing, None, "unknown" or not coercible
NotAnInteger(x) == x.k \in {"missing", "None", "unknown", "str", "inf"}

\* C6 as stated: a failed_logins that is missing, None, "unknown" or not
\* coercible to an integer counts as 0: check_rules raises nothing and emits
\* no alert for that record.
C6_CoercedToZero ==
    /\ raised \notin {"OverflowError", "ValueError"}
    /\ pc = "rules_done" =>
          \A i \in 1..Len(rows) :
              NotAnInteger(rows[i].failed_logins) =>
                  \A a \in 1..Len(rule_alerts) : rule_alerts[a].ip # rows[i].ip

MaskedIn == {i \in 1..Len(mask) : mask[i]}

FeatureOf(x) == IF x.k = "missing" THEN IntV(0) ELSE x

\* C7: detect returns exactly the input records at the positions where the
\* mask is True, in input order; feature row i is built from record i and
\* mask, feature matrix and record list have the same length.
C7_MaskMapsToRecords ==
    pc = "done" =>
        /\ Len(features) = Len(rows)
        /\ Len(mask) = Len(rows)
        /\ \A i \in 1..Len(rows) :
              features[i] = <<FeatureOf(rows[i].failed_logins), FeatureOf(rows[i].requests)>>
        /\ Len(anomaly_alerts) = Cardinality(MaskedIn)
        /\ \A i \in MaskedIn : anomaly_alerts[Rank(MaskedIn, i)] = rows[i]

C7_Witness ==
    /\ pc = "done" /\ Len(rows) = 2
    /\ ~mask[1] /\ mask[2]
    /\ anomaly_alerts = <<rows[2]>>

\* C8 as stated: when fit or predict of the model raises, detect returns the
\* anomalies of the heuristic on the same feature matrix and no exception
\* reaches the caller.
C8_FallbackRecovers ==
    model_raised =>
        /\ pc = "done"
        /\ raised = "none"
        /\ \E tie \in Ties :
              anomaly_alerts =
                  MapMask(rows, heuristic_mask(features, detector.n_sigma, hasNumpy, tie), 1)

\* C9: empty input gives empty output and no exception in every stage:
\* no events give no records, no records give no rule alert and no anomaly
\* under either strategy, the fallback included.
C9_EmptyInEmptyOut ==
    /\ (~Aggregating /\ events = <<>>) => agg = <<>>
    /\ (~Aggregating /\ rows = <<>>) =>
          /\ pc # "raised"
          /\ raised = "none"
          /\ rule_alerts = <<>>
          /\ anomaly_alerts = <<>>
          /\ mask = <<>>

C9_Witness ==
    /\ pc = "done" /\ rows = <<>> /\ events = <<>> /\ pos = 0
    /\ hasNumpy /\ model_raised /\ anomaly_alerts = <<>>

\* C10 as stated: no detector exists with a negative n_sigma or with a
\* contamination outside the open interval (0, 1).
C10_ConfigValidated ==
    detector.constructed =>
        /\ detector.n_sigma.num >= 0
        /\ 0 < detector.contamination.num
        /\ detector.contamination.num < detector.contamination.den

\* records whose failed_logins fires the brute-force rule
Firing ==
    {i \in 1..Len(rows) :
        rows[i].failed_logins.k \in {"int", "numstr"} /\ rows[i].failed_logins.v > 5}

\* C11: analyze feeds the same records in the same order to the rule engine
\* and to the detector, changes neither a record nor the sequence, and
\* returns rule alerts and anomalies as two sequences, unmerged: a record
\* that fires the rule and is flagged appears once in each.
C11_SameRowsTwoSequences ==
    [][/\ pc \in {"ready", "rules_done"} => rows' = rows
       /\ (pc = "rules_done" /\ pc' = "done") =>
             /\ rule_alerts' = rule_alerts
             /\ Len(rule_alerts) = Cardinality(Firing)
             /\ \A i \in Firing : rule_alerts[Rank(Firing, i)].ip = rows[i].ip
             /\ Len(features') = Len(rows)
             /\ \A i \in 1..Len(rows) :
                   features'[i] = <<FeatureOf(rows[i].failed_logins),
                                    FeatureOf(rows[i].requests)>>
             /\ LET flagged == {i \in 1..Len(mask') : mask'[i]}
                IN  /\ Len(anomaly_alerts') = Cardinality(flagged)
                    /\ \A i \in flagged : anomaly_alerts'[Rank(flagged, i)] = rows[i]]_vars

C11_Witness ==
    /\ pc = "done" /\ Len(rows) = 2
    /\ Len(rule_alerts) = 1 /\ rule_alerts[1].ip = rows[2].ip
    /\ anomaly_alerts = <<rows[1], rows[2]>>

\* the heuristic strategy was the one to run in a detect call that ended
\* a later call of the detector on the batch of its first call
RepeatedCall == HeuristicRan /\ calls >= 2 /\ first.set /\ rows = first.rows

HeuristicCalled == pc \in {"done", "raised"} /\ (~detector.model \/ model_raised)

Stored(r, c) == IF c = 1 THEN r.failed_logins ELSE r.requests

IsPresent(x) == x.k \notin {"None", "missing"}

\* every feature is an integer or is None/missing, and one at least is not there
SomeFeatureAbsent ==
    /\ \A i \in 1..Len(rows) : \A c \in 1..2 : Stored(rows[i], c).k \in {"int", "None", "missing"}
    /\ \E i \in 1..Len(rows) : \E c \in 1..2 : ~IsPresent(Stored(rows[i], c))

\* the values of feature c that are there, in row order
PresentColumn(c) == SelectSeq([i \in 1..Len(rows) |-> Stored(rows[i], c)], IsPresent)

\* C13 as stated: a missing or None feature value is skipped, never taken as
\* 0: the batch gets the flags that the mean and population standard
\* deviation of the present values alone give, and nothing is raised.
C13_AbsentValuesSkipped ==
    (HeuristicCalled /\ SomeFeatureAbsent /\ detector.n_sigma.num > 0) =>
        /\ pc = "done"
        /\ \E tie \in Ties :
              mask = [i \in 1..Len(rows) |->
                         \E c \in 1..2 :
                             /\ IsPresent(Stored(rows[i], c))
                             /\ ZExceeds(Stored(rows[i], c), PresentColumn(c), c,
                                         detector.n_sigma, tie)]

RECURSIVE SumTo(_, _)
SumTo(f, n) == IF n = 0 THEN 0 ELSE f[n] + SumTo(f, n - 1)

\* n * (value - mean) of feature c in row i, None counted as 0
ScaledDev(i, c) ==
    LET v == [j \in 1..Len(features) |->
                 IF features[j][c].k = "None" THEN 0 ELSE features[j][c].v]
    IN  Len(features) * v[i] - SumTo(v, Len(features))

ScaledSquares(c) ==
    SumTo([j \in 1..Len(features) |-> ScaledDev(j, c) * ScaledDev(j, c)], Len(features))

\* the exact z-score of feature c in row i equals 3
ZIsThree(i, c) ==
    /\ ScaledSquares(c) > 0
    /\ ScaledDev(i, c) * ScaledDev(i, c) * Len(features) = 9 * ScaledSquares(c)

NoRowFlagged == \A i \in 1..Len(mask) : ~mask[i]

\* C14 as stated: with n_sigma = 3.0 the heuristic flags no row of a batch of
\* at most 10 rows, whatever the values; only batches of 11 rows or more can
\* have a flagged row.
C14_NoFlagUpToTen ==
    (HeuristicRan /\ detector.n_sigma = Rat(3, 1) /\ Len(rows) <= 10) => NoRowFlagged

\* C14 amended: with n_sigma = 3.0 the heuristic flags no row of a batch of
\* at most 9 rows; in a batch of 10 rows it can flag only a row whose exact
\* z-score equals sqrt(n-1) = 3.0, when floating point rounds that z above 3.
C14_NoFlagUpToNine ==
    (HeuristicRan /\ detector.n_sigma = Rat(3, 1)) =>
        /\ Len(rows) <= 9 => NoRowFlagged
        /\ Len(rows) = 10 =>
              \A i \in 1..Len(mask) : mask[i] => \E c \in 1..2 : ZIsThree(i, c)

C14_Witness ==
    /\ HeuristicRan /\ detector.n_sigma = Rat(3, 1)
    /\ rows = BatchJLast /\ mask[10] /\ anomaly_alerts = <<RowJ>>

====
